---- MODULE Spec2Model ----
(***************************************************************************)
(* A model of ra-rom-checker (src/main.py, src/utils.py): check_roms walks *)
(* a directory tree, hashes every file with RAHasher, looks the hash up in *)
(* the per-system HASH_DATABASE and renames / deduplicates / deletes files.*)
(*                                                                         *)
(* Strings (paths, file names, hashes, catalog names) are sequences of     *)
(* one-character strings, so that str.replace, str.rsplit, str.split,      *)
(* str.lower, str.upper and str.strip are computed as Python computes them.*)
(* The path alphabet has no upper-case letters, so file.lower() ==         *)
(* dest_file.lower() is file == dest_file, which never holds when the      *)
(* names differ: the win32 branch of lines 123-125 is not taken.           *)
(*                                                                         *)
(* A file is [id, out]: id is the identity of the file (an inode), out is  *)
(* the sequence of lines RAHasher prints for its content.                  *)
(***************************************************************************)
EXTENDS Integers, Sequences, FiniteSets, TLC

VARIABLES
    args,      \* the arguments of the top-level check_roms call
    catalog,   \* what the RetroAchievements API answers, per system id
    dirs,      \* the directories of the filesystem (never changed by the code)
    fs,        \* the files of the filesystem: path -> [id, out]
    pc,        \* where the program is: start, scan, loop, outer, done, crashed
    scan,      \* the frame of the running system scan (check_roms, else branch)
    cur,       \* the file being renamed in the while(True) loop
    outer,     \* the frame of the no-system walk (check_roms, if branch)
    run,       \* how many times main() has been started
    log        \* history: what the program reported and did

vars == <<args, catalog, dirs, fs, pc, scan, cur, outer, run, log>>

----------------------------------------------------------------------------
(* Bounds of the model *)

\* how many files the filesystem holds initially, at most
MaxFiles == 2
\* how many identically hashed files the dedup-chain specification holds, at most
MaxChain == 3
\* how many times main() is run on the same directory
MaxRuns == 2

----------------------------------------------------------------------------
(* Strings *)

S1(a) == <<a>>
S2(a, b) == <<a, b>>
S3(a, b, c) == <<a, b, c>>

ToLower(c) ==
    CASE c = "A" -> "a" [] c = "B" -> "b" [] c = "C" -> "c" [] c = "D" -> "d"
      [] OTHER -> c

ToUpper(c) ==
    CASE c = "a" -> "A" [] c = "b" -> "B" [] c = "c" -> "C" [] c = "d" -> "D"
      [] OTHER -> c

\* str.lower()
Lower(s) == [i \in 1..Len(s) |-> ToLower(s[i])]

\* str.upper()
Upper(s) == [i \in 1..Len(s) |-> ToUpper(s[i])]

\* str.strip(): leading and trailing whitespace removed
RECURSIVE LStrip(_)
LStrip(s) == IF s # <<>> /\ Head(s) = " " THEN LStrip(Tail(s)) ELSE s

RECURSIVE RStrip(_)
RStrip(s) ==
    IF s # <<>> /\ s[Len(s)] = " " THEN RStrip(SubSeq(s, 1, Len(s) - 1)) ELSE s

Strip(s) == RStrip(LStrip(s))

\* the positions of character c in s
Positions(s, c) == {i \in 1..Len(s) : s[i] = c}

Max(S) == CHOOSE x \in S : \A y \in S : y <= x
Min(S) == CHOOSE x \in S : \A y \in S : x <= y

\* s.rsplit('.', 1)[0]: what precedes the LAST '.', all of s when it has none
RSplitHead(s) ==
    IF Positions(s, ".") = {} THEN s
    ELSE SubSeq(s, 1, Max(Positions(s, ".")) - 1)

\* s.split('.', 1)[0]: what precedes the FIRST '.', all of s when it has none
SplitHead(s) ==
    IF Positions(s, ".") = {} THEN s
    ELSE SubSeq(s, 1, Min(Positions(s, ".")) - 1)

\* s.replace(old, new): every non-overlapping occurrence, left to right; an
\* empty old matches before every character and at the end
RECURSIVE Replace(_, _, _)
Replace(s, old, new) ==
    IF old = <<>>
    THEN IF s = <<>> THEN new
         ELSE new \o <<Head(s)>> \o Replace(Tail(s), old, new)
    ELSE IF Len(s) < Len(old) THEN s
    ELSE IF SubSeq(s, 1, Len(old)) = old
    THEN new \o Replace(SubSeq(s, Len(old) + 1, Len(s)), old, new)
    ELSE <<Head(s)>> \o Replace(Tail(s), old, new)

\* os.path.join(root, name)
Join(root, name) == root \o <<"/">> \o name

\* os.path.dirname(path) and os.path.basename(path)
Dirname(p) ==
    IF Positions(p, "/") = {} THEN <<>>
    ELSE SubSeq(p, 1, Max(Positions(p, "/")) - 1)

Basename(p) ==
    IF Positions(p, "/") = {} THEN p
    ELSE SubSeq(p, Max(Positions(p, "/")) + 1, Len(p))

\* how many directories deep p lies below the directory top
Depth(p, top) == Cardinality({i \in Len(top) + 1..Len(p) : p[i] = "/"})

----------------------------------------------------------------------------
(* Optional values: Python's None *)

None == [some |-> FALSE, val |-> <<>>]
Some(v) == [some |-> TRUE, val |-> v]

----------------------------------------------------------------------------
(* The system registry (systems.json, read by utils.Systems) *)

\* check_roms' default system_id=None, as a number no system has
NoSystem == 0

\* the systems whose canonical name keeps the extension (line 105), the one
\* split at the first '.' (line 107); 7 stands for all the others
KeepExtension == {12, 21, 40}
SplitFirst == 27

\* SYSTEMS_BY_DIR of a sample systems.json: directory name -> system id
SYSTEMS_BY_DIR ==
    [d \in {S1("a"), S1("b")} |-> IF d = S1("a") THEN 7 ELSE 12]

\* Systems.get_system_by_dir(dir): the system's Id, or None
get_system_by_dir(name) ==
    IF name \in DOMAIN SYSTEMS_BY_DIR THEN Some(SYSTEMS_BY_DIR[name]) ELSE None

----------------------------------------------------------------------------
(* The catalog: RAClient.get_system_game_list and RAClient.get_game_hashes *)

Game(id, hashes) == [ID |-> id, Hashes |-> hashes]
Rec(md5, name) == [MD5 |-> md5, Name |-> name]

\* auth.get_system_game_list(system_id, hashes=True)
get_system_game_list(system_id) == catalog[system_id].games

\* auth.get_game_hashes(game_id)["Results"]
get_game_hashes(system_id, game_id) == catalog[system_id].results[game_id]

----------------------------------------------------------------------------
(* The filesystem and the hasher *)

\* (mutant) os.path.isdir in place of os.path.exists
ExistsDirOnly(files, path) == path \in dirs

\* os.path.exists(path)
Exists(files, path) == path \in DOMAIN files \/ path \in dirs

\* os.remove(path)
Remove(files, path) == [p \in DOMAIN files \ {path} |-> files[p]]

\* os.rename(src, dst), for an existing file src and a dst in an existing directory
Rename(files, src, dst) ==
    [p \in (DOMAIN files \ {src}) \cup {dst} |->
        IF p = dst THEN files[src] ELSE files[p]]

\* what os.rename(src, dst) raises: FileNotFoundError when dst's directory
\* does not exist
RenameRaises(src, dst) == Dirname(dst) \notin dirs

\* one level of os.walk: the file names and the subdirectories of directory d
ListFiles(files, d) == {Basename(p) : p \in {q \in DOMAIN files : Dirname(q) = d}}
ListDirs(d) == {q \in dirs : Dirname(q) = d}

\* os.walk keeps the directories still to visit as a stack of levels; levels
\* with nothing left are dropped
RECURSIVE Trim(_)
Trim(stack) ==
    IF stack # <<>> /\ stack[Len(stack)] = {}
    THEN Trim(SubSeq(stack, 1, Len(stack) - 1))
    ELSE stack

\* os.walk(top): nothing to visit when top is no directory
WalkStart(top) == IF top \in dirs THEN <<{top}>> ELSE <<>>

\* (mutant) os.walk that does not descend into the subdirectories
WalkVisitFlat(stack, d) == Trim([stack EXCEPT ![Len(stack)] = @ \ {d}])

\* the stack after visiting directory d of its top level
WalkVisit(stack, d) ==
    Trim(Append([stack EXCEPT ![Len(stack)] = @ \ {d}], ListDirs(d)))

\* get_rom_hash(file, system_id): the first line RAHasher prints, stripped;
\* None when it prints nothing (also for a path that is no file)
get_rom_hash(files, file) ==
    IF file \notin DOMAIN files THEN None
    ELSE IF files[file].out = <<>> THEN None
    ELSE Some(Strip(files[file].out[1]))

----------------------------------------------------------------------------
(* The hash index and the classification of one file *)

\* lines 77-82: HASH_DATABASE, hash -> game, the first game wins
RECURSIVE AddHashes(_, _, _)
AddHashes(db, g, hs) ==
    IF hs = <<>> THEN db
    ELSE AddHashes(
           IF Head(hs) \in DOMAIN db THEN db
           ELSE [h \in DOMAIN db \cup {Head(hs)} |->
                    IF h = Head(hs) THEN g ELSE db[h]],
           g, Tail(hs))

RECURSIVE AddGames(_, _)
AddGames(db, games) ==
    IF games = <<>> THEN db
    ELSE AddGames(AddHashes(db, Head(games), Head(games).Hashes), Tail(games))

EmptyDatabase == [h \in {} |-> h]

BuildHashDatabase(system_id) ==
    AddGames(EmptyDatabase, get_system_game_list(system_id))

\* lines 93-97: the key the hash is found under
HashKey(db, hash) ==
    IF Lower(hash) \in DOMAIN db THEN Some(Lower(hash))
    ELSE IF Upper(hash) \in DOMAIN db THEN Some(Upper(hash))
    ELSE None

\* (mutant) system 27 is split at its last '.', like the other systems
CanonicalName_lastdot(system_id, fname) ==
    IF system_id \in KeepExtension THEN fname
    ELSE RSplitHead(fname)

\* lines 105-110: the canonical name of a catalog file name
CanonicalName(system_id, fname) ==
    IF system_id \in KeepExtension THEN fname
    ELSE IF system_id = SplitFirst THEN SplitHead(fname)
    ELSE RSplitHead(fname)

\* lines 102-110: ra_rom_name after the loop over the game's hash records
\* (the last record whose MD5 is the key decides), None when none has it
RECURSIVE RaRomName(_, _, _)
RaRomName(system_id, results, hash_key) ==
    IF results = <<>> THEN None
    ELSE IF results[Len(results)].MD5 = hash_key
    THEN Some(CanonicalName(system_id, results[Len(results)].Name))
    ELSE RaRomName(system_id, SubSeq(results, 1, Len(results) - 1), hash_key)

\* line 90
LocalRomName(name) == RSplitHead(name)

\* lines 91-116 for a hash the hasher produced: the key, the canonical name
\* and the classification
Inspect(system_id, db, name, hash) ==
    LET key == HashKey(db, hash)
        ra == IF key.some
              THEN RaRomName(system_id,
                             get_game_hashes(system_id, db[key.val].ID), key.val)
              ELSE None
    IN  [hash_key |-> key,
         ra_rom_name |-> ra,
         class |-> IF ~key.some THEN "Unmatched"
                   ELSE IF ~ra.some THEN "MatchedNoName"
                   ELSE IF ra.val = LocalRomName(name) THEN "MatchedCorrect"
                   ELSE "MatchedMismatched"]

\* line 122
DestFile(file, local_rom_name, ra_rom_name) ==
    Replace(file, local_rom_name, ra_rom_name)

\* (mutant) the first file is removed, not the second
deduplicate_first(files, first, second) ==
    IF get_rom_hash(files, first) = get_rom_hash(files, second)
    THEN Remove(files, first)
    ELSE files

\* (mutant) the second file is removed whatever the hashes are
deduplicate_unchecked(files, first, second) == Remove(files, second)

\* lines 49-54: the filesystem after deduplicate_files(first, second)
deduplicate_files(files, first, second) ==
    IF get_rom_hash(files, first) = get_rom_hash(files, second)
    THEN Remove(files, second)
    ELSE files

\* os.remove(second) raises when second is no file (a directory)
DedupRaises(files, first, second) ==
    /\ get_rom_hash(files, first) = get_rom_hash(files, second)
    /\ second \notin DOMAIN files

----------------------------------------------------------------------------
(* History *)

Ev(kind, sys, id, path, dst, other, class, hash, canon) ==
    [run |-> run, kind |-> kind, sys |-> sys, id |-> id, path |-> path,
     dst |-> dst, other |-> other, class |-> class, hash |-> hash,
     canon |-> canon]

\* a system scan of directory d was started
EvScan(sys, d) == Ev("scan", sys, <<>>, d, <<>>, <<>>, "", None, None)
\* the report line of a file: its hash and classification
EvFile(sys, id, path, class, hash, canon) ==
    Ev("file", sys, id, path, <<>>, <<>>, class, hash, canon)
\* os.rename(path, dst) done
EvRename(sys, id, path, dst, canon) ==
    Ev("rename", sys, id, path, dst, <<>>, "", None, canon)
\* "Rename fail: Duplicated file name"
EvRenameFail(sys, id, path, dst) ==
    Ev("rename_fail", sys, id, path, dst, <<>>, "", None, None)
\* deduplicate_files removed the file id (of the given hash) at path, while
\* the file other was being renamed to dst
EvDedup(sys, id, path, other, dst, hash) ==
    Ev("dedup", sys, id, path, dst, other, "", hash, None)
\* "Deleting...": os.remove of a file not found
EvDelete(sys, id, path) == Ev("delete", sys, id, path, <<>>, <<>>, "", None, None)
\* an exception ended the program
EvCrash(sys, path, why) == Ev("crash", sys, <<>>, path, <<>>, <<>>, why, None, None)

----------------------------------------------------------------------------
(* The program *)

NoScan == [dir |-> <<>>, system_id |-> NoSystem, HASH_DATABASE |-> EmptyDatabase,
           stack |-> <<>>, root |-> <<>>, files |-> {}]
NoCur == [file |-> <<>>, dest_file |-> <<>>, id |-> <<>>,
          local_rom_name |-> <<>>, ra_rom_name |-> <<>>, turn |-> 0]
NoOuter == [stack |-> <<>>, root |-> <<>>, names |-> {}]

\* lines 73-84: the else branch up to the walk
NewScan(dir, system_id) ==
    [dir |-> dir, system_id |-> system_id,
     HASH_DATABASE |-> BuildHashDatabase(system_id),
     stack |-> WalkStart(dir), root |-> <<>>, files |-> {}]

\* line 65: check_roms is called by main
Start ==
    /\ pc = "start"
    /\ IF args.system_id = NoSystem
       THEN /\ pc' = "outer"
            /\ outer' = [stack |-> WalkStart(args.dir), root |-> <<>>, names |-> {}]
            /\ UNCHANGED <<scan, log>>
       ELSE /\ pc' = "scan"
            /\ scan' = NewScan(args.dir, args.system_id)
            /\ log' = log \cup {EvScan(args.system_id, args.dir)}
            /\ UNCHANGED outer
    /\ UNCHANGED <<args, catalog, dirs, fs, cur, run>>

\* line 84: os.walk yields the next directory of the scan
ScanWalk ==
    /\ pc = "scan"
    /\ scan.files = {}
    /\ scan.stack # <<>>
    /\ \E d \in scan.stack[Len(scan.stack)] :
         scan' = [scan EXCEPT !.stack = WalkVisit(@, d), !.root = d,
                              !.files = ListFiles(fs, d)]
    /\ UNCHANGED <<args, catalog, dirs, fs, pc, cur, outer, run, log>>

\* lines 85-141 for one file, up to the while loop
ProcessFile ==
    /\ pc = "scan"
    /\ \E name \in scan.files :
       \E file \in {Join(scan.root, name)} :
       \E hash \in {get_rom_hash(fs, file)} :
       \E r \in {Inspect(scan.system_id, scan.HASH_DATABASE, name, hash.val)} :
       \E id \in {IF file \in DOMAIN fs THEN fs[file].id ELSE <<>>} :
         /\ scan' = [scan EXCEPT !.files = @ \ {name}]
         /\ IF ~hash.some
            THEN \* line 94: None has no lower()
                 /\ pc' = "crashed"
                 /\ log' = log \cup {EvCrash(scan.system_id, file, "NoneHash")}
                 /\ UNCHANGED <<fs, cur>>
            ELSE IF r.hash_key.some
            THEN \* lines 118-136: Hash OK
                 /\ log' = log \cup {EvFile(scan.system_id, id, file, r.class,
                                            hash, r.ra_rom_name)}
                 /\ IF /\ args.rename_files
                       /\ r.ra_rom_name.some
                       /\ r.ra_rom_name.val # LocalRomName(name)
                    THEN /\ pc' = "loop"
                         /\ cur' = [file |-> file,
                                    dest_file |-> DestFile(file, LocalRomName(name),
                                                           r.ra_rom_name.val),
                                    id |-> id,
                                    local_rom_name |-> LocalRomName(name),
                                    ra_rom_name |-> r.ra_rom_name.val,
                                    turn |-> 0]
                    ELSE UNCHANGED <<pc, cur>>
                 /\ UNCHANGED fs
            ELSE \* lines 137-141: Not found
                 /\ log' = log \cup
                       ({EvFile(scan.system_id, id, file, r.class, hash, None)}
                        \cup IF args.remove_invalid
                             THEN {EvDelete(scan.system_id, id, file)} ELSE {})
                 /\ fs' = IF args.remove_invalid THEN Remove(fs, file) ELSE fs
                 /\ UNCHANGED <<pc, cur>>
    /\ UNCHANGED <<args, catalog, dirs, outer, run>>

\* lines 127-136: one iteration of the while(True) loop
RenameLoop ==
    /\ pc = "loop"
    /\ LET file == cur.file
           dest_file == cur.dest_file
           sys == scan.system_id
       IN  IF ~Exists(fs, dest_file)
           THEN IF RenameRaises(file, dest_file)
                THEN /\ pc' = "crashed"
                     /\ log' = log \cup {EvCrash(sys, file, "RenameError")}
                     /\ UNCHANGED <<fs, cur>>
                ELSE /\ fs' = Rename(fs, file, dest_file)
                     /\ pc' = "scan"
                     /\ log' = log \cup
                           {EvRename(sys, cur.id, file, dest_file,
                                     Some(cur.ra_rom_name))}
                     /\ UNCHANGED cur
           ELSE IF args.dedup_files
           THEN IF DedupRaises(fs, file, dest_file)
                THEN /\ pc' = "crashed"
                     /\ log' = log \cup {EvCrash(sys, file, "RemoveError")}
                     /\ UNCHANGED <<fs, cur>>
                ELSE /\ fs' = deduplicate_files(fs, file, dest_file)
                     /\ log' = log \cup
                           {EvDedup(sys, fs[p].id, p, cur.id, dest_file,
                                    get_rom_hash(fs, p)) :
                              p \in DOMAIN fs \ DOMAIN fs'}
                     /\ cur' = [cur EXCEPT !.turn = 1 - @]
                     /\ pc' = "loop"
           ELSE /\ log' = log \cup {EvRenameFail(sys, cur.id, file, dest_file)}
                /\ pc' = "scan"
                /\ UNCHANGED <<fs, cur>>
    /\ UNCHANGED <<args, catalog, dirs, scan, outer, run>>

\* the scan's walk is over: check_roms returns
ScanEnd ==
    /\ pc = "scan"
    /\ scan.files = {}
    /\ scan.stack = <<>>
    /\ pc' = IF args.system_id = NoSystem THEN "outer" ELSE "done"
    /\ UNCHANGED <<args, catalog, dirs, fs, scan, cur, outer, run, log>>

\* line 67: os.walk yields the next directory of the no-system walk
OuterWalk ==
    /\ pc = "outer"
    /\ outer.names = {}
    /\ outer.stack # <<>>
    /\ \E d \in outer.stack[Len(outer.stack)] :
         outer' = [stack |-> WalkVisit(outer.stack, d), root |-> d,
                   names |-> {Basename(q) : q \in ListDirs(d)}]
    /\ UNCHANGED <<args, catalog, dirs, fs, pc, scan, cur, run, log>>

\* lines 68-71: one directory name of the no-system walk
OuterDir ==
    /\ pc = "outer"
    /\ \E name \in outer.names :
         LET system == get_system_by_dir(name)
         IN  /\ outer' = [outer EXCEPT !.names = @ \ {name}]
             /\ IF system.some
                THEN /\ pc' = "scan"
                     /\ scan' = NewScan(Join(outer.root, name), system.val)
                     /\ log' = log \cup {EvScan(system.val, Join(outer.root, name))}
                ELSE UNCHANGED <<pc, scan, log>>
    /\ UNCHANGED <<args, catalog, dirs, fs, cur, run>>

\* the no-system walk is over: check_roms returns
OuterEnd ==
    /\ pc = "outer"
    /\ outer.names = {}
    /\ outer.stack = <<>>
    /\ pc' = "done"
    /\ UNCHANGED <<args, catalog, dirs, fs, scan, cur, outer, run, log>>

\* the program is run again on the same directory, with the same flags and
\* the same catalog
Rerun ==
    /\ pc = "done"
    /\ run < MaxRuns
    /\ run' = run + 1
    /\ pc' = "start"
    /\ scan' = NoScan
    /\ cur' = NoCur
    /\ outer' = NoOuter
    /\ UNCHANGED <<args, catalog, dirs, fs, log>>

----------------------------------------------------------------------------
(* Inputs: directories, file names, hasher outputs, catalogs *)

R == S1("r")
Ra == Join(R, S1("a"))
Rb == Join(R, S1("b"))
Rc == Join(R, S1("c"))
Rab == Join(Ra, S1("b"))
Rca == Join(Rc, S1("a"))

\* file names: a.x, b.x, c.x, d.x, a (no extension), a.a (the extension is
\* the base name)
Nax == S3("a", ".", "x")
Nbx == S3("b", ".", "x")
Ncx == S3("c", ".", "x")
Ndx == S3("d", ".", "x")
Na == S1("a")
Naa == S3("a", ".", "a")

\* hashes: ab in its casings, cd, ef
Hab == S2("a", "b")
HAB == S2("A", "B")
HaB == S2("a", "B")
Hcd == S2("c", "d")
Hef == S2("e", "f")

\* what RAHasher prints: one line holding a hash
Out(h) == <<h>>

\* the catalog of the scans: system 7 lists ab twice (game 1 wins) and names
\* cd "c.d.x"; system 12 keeps the extension, ab is "b.x" and cd is "b";
\* system 27 splits "b.c.x" at its first '.'
Catalog ==
    [sys \in {7, 12, SplitFirst} |->
       IF sys = 7
       THEN [games |-> <<Game(1, <<Hab>>), Game(2, <<Hcd, Hab>>)>>,
             results |-> [g \in {1, 2} |->
                            IF g = 1 THEN <<Rec(Hab, Nbx)>>
                            ELSE <<Rec(Hab, Ncx), Rec(Hcd, <<"c", ".", "d", ".", "x">>)>>]]
       ELSE IF sys = 12
       THEN [games |-> <<Game(1, <<Hab, Hcd>>)>>,
             results |-> [g \in {1} |-> <<Rec(Hab, Nbx), Rec(Hcd, S1("b"))>>]]
       ELSE [games |-> <<Game(1, <<Hab>>)>>,
             results |-> [g \in {1} |-> <<Rec(Hab, <<"b", ".", "c", ".", "x">>)>>]]]

\* catalogs of system 7 whose hashes are stored in lower, upper and mixed
\* case; the second game's hash has no record of its own
CaseCatalog(h) ==
    [sys \in {7} |->
       [games |-> <<Game(1, <<h>>), Game(2, <<Hcd>>)>>,
        results |-> [g \in {1, 2} |->
                       IF g = 1 THEN <<Rec(h, Nbx)>> ELSE <<Rec(Hab, Ncx)>>]]]

Flags == [remove_invalid : BOOLEAN, rename_files : BOOLEAN, dedup_files : BOOLEAN]

Args(dir, system_id, f) ==
    [dir |-> dir, system_id |-> system_id, remove_invalid |-> f.remove_invalid,
     rename_files |-> f.rename_files, dedup_files |-> f.dedup_files]

\* the filesystems of at most n files at the given paths, each file with one
\* of the given hasher outputs; a file's id is the path it starts at
FileSystems(paths, outs, n) ==
    UNION {{[p \in P |-> [id |-> p, out |-> o[p]]] : o \in [P -> outs]} :
             P \in {Q \in SUBSET paths : Cardinality(Q) <= n}}

InitWith(a, c, d, f) ==
    /\ args = a
    /\ catalog = c
    /\ dirs = d
    /\ fs = f
    /\ pc = "start"
    /\ scan = NoScan
    /\ cur = NoCur
    /\ outer = NoOuter
    /\ run = 1
    /\ log = {}

\* the files a scan of r may find
ScanPaths(d) ==
    {Join(R, n) : n \in {Nax, Nbx, Na, Naa}}
    \cup (IF Ra \in d THEN {Join(Ra, n) : n \in {Nax, Nbx}} ELSE {})
    \cup (IF Rb \in d THEN {Join(Rb, Nbx)} ELSE {})

\* system scans of r: any flags, one of three systems, r with or without
\* its subdirectories
InitScan ==
    \E f \in Flags, sys \in {7, 12, SplitFirst}, d \in {{R, Ra}, {R, Ra, Rb}} :
      \E files \in FileSystems(ScanPaths(d), {Out(Hab), Out(Hcd), Out(Hef)}, MaxFiles) :
        InitWith(Args(R, sys, f), Catalog, d, files)

\* system scans of r where the hasher prints a hash in any casing, a padded
\* hash, an empty line or nothing, against catalogs in each casing
InitHash ==
    \E f \in Flags, h \in {Hab, HAB, HaB} :
      \E files \in FileSystems({Join(R, Nax), Join(R, Nbx)},
                               {<<>>, Out(Hab), Out(HAB), Out(HaB), Out(Hef),
                                Out(<<>>), Out(<<" ", "a", "b", " ">>)},
                               MaxFiles) :
        InitWith(Args(R, 7, f), CaseCatalog(h), {R}, files)

Init == InitScan \/ InitHash

Next == Start \/ ScanWalk \/ ProcessFile \/ RenameLoop \/ ScanEnd

\* system scans
Spec == Init /\ [][Next]_vars

\* runs without a system id: r holds directories named after systems (a, b)
\* and one that is not (c), nested in each other
WalkPaths(d) ==
    {Join(R, Nax)} \cup {Join(x, n) : x \in d \ {R}, n \in {Nax, Nbx}}

InitWalk ==
    \E f \in Flags,
       d \in {{R, Ra, Rab}, {R, Rc, Rca}, {R, Ra, Rb, Rc, Rab, Rca}} :
      \E files \in FileSystems(WalkPaths(d), {Out(Hab), Out(Hcd)}, MaxFiles) :
        InitWith(Args(R, NoSystem, f), Catalog, d, files)

NextWalk == Next \/ OuterWalk \/ OuterDir \/ OuterEnd

SpecWalk == InitWalk /\ [][NextWalk]_vars

\* system scans that are run again when they have finished
InitTwice ==
    \E f \in Flags, sys \in {7, 12, SplitFirst} :
      \E files \in FileSystems({Join(R, Nax), Join(R, Nbx), Join(R, Na),
                                Join(R, Naa), Join(Ra, Nax)},
                               {Out(Hab), Out(Hcd), Out(Hef)}, MaxFiles) :
        InitWith(Args(R, sys, f), Catalog, {R, Ra, Rb}, files)

NextTwice == Next \/ Rerun

SpecTwice == InitTwice /\ [][NextTwice]_vars

\* system scans of one directory holding up to MaxChain files; the program
\* is sequential and takes its next step whenever it has one
InitChain ==
    \E f \in Flags :
      \E files \in FileSystems({Join(R, n) : n \in {Nax, Nbx, Ncx, Ndx}},
                               {Out(Hab), Out(Hcd)}, MaxChain) :
        InitWith(Args(R, 7, f), Catalog, {R}, files)

SpecChain == InitChain /\ [][Next]_vars /\ WF_vars(Next)

----------------------------------------------------------------------------
(* Claims about a system scan *)

FileEvents == {e \in log : e.kind = "file"}
Events(kind) == {e \in log : e.kind = kind}

\* the keys of the HashIndex of system sys
IndexKeys(sys) == DOMAIN BuildHashDatabase(sys)

\* C1 (as claimed): a file whose hash is a key of the HashIndex as returned by
\* the hasher, or in lower case, or in upper case, is never reported
\* Unmatched and never deleted as not found.
C1_IndexedNeverUnmatched ==
    \A e \in FileEvents :
       (e.hash.val \in IndexKeys(e.sys)
          \/ Lower(e.hash.val) \in IndexKeys(e.sys)
          \/ Upper(e.hash.val) \in IndexKeys(e.sys))
       => /\ e.class # "Unmatched"
          /\ ~\E x \in Events("delete") : x.id = e.id /\ x.run = e.run

\* C2 (as claimed): a file for which the hasher prints nothing does not end
\* the scan in an error: no exception is raised for the missing hash.
C2_NoOutputNoError ==
    \A e \in Events("crash") : e.class # "NoneHash"

\* C3 (as claimed): when the destination exists with the source's hash and
\* dedup is set, the source file is the one deleted and the destination file
\* stays as it was.
C3_SourceDeleted ==
    [][(/\ pc = "loop"
        /\ args.dedup_files
        /\ cur.dest_file \in DOMAIN fs
        /\ get_rom_hash(fs, cur.file) = get_rom_hash(fs, cur.dest_file))
       => (/\ cur.file \notin DOMAIN fs'
           /\ cur.dest_file \in DOMAIN fs'
           /\ fs'[cur.dest_file] = fs[cur.dest_file])]_vars

\* C3 (amended): the file dedup deletes is the pre-existing file at the
\* destination path, never the source; it had the source's hash; the source
\* is kept and the next iteration of the loop renames it to the destination.
C3_DestinationDeleted ==
    \A e \in Events("dedup") :
       /\ e.path = e.dst
       /\ e.id # e.other
       /\ \E f \in FileEvents : f.id = e.other /\ f.run = e.run /\ f.hash = e.hash
       /\ \/ /\ pc = "loop"
             /\ run = e.run
             /\ cur.id = e.other
             /\ cur.dest_file = e.dst
             /\ cur.file \in DOMAIN fs
             /\ fs[cur.file].id = e.other
             /\ e.dst \notin DOMAIN fs
          \/ \E m \in Events("rename") :
                m.id = e.other /\ m.dst = e.dst /\ m.run = e.run

\* witness of C3: a scan that deleted a duplicate and renamed the source to
\* its path has finished
C3_Witness ==
    /\ pc = "done"
    /\ \E e \in Events("dedup") :
          /\ e.dst \in DOMAIN fs
          /\ fs[e.dst].id = e.other

\* C5: when the destination exists and dedup is unset, the failure is
\* reported, no file is touched, and the scan goes on with the files left.
C5_RenameFailTouchesNothing ==
    [][(/\ pc = "loop"
        /\ ~args.dedup_files
        /\ (cur.dest_file \in DOMAIN fs \/ cur.dest_file \in dirs))
       => (/\ fs' = fs
           /\ pc' = "scan"
           /\ scan' = scan
           /\ \E e \in log' \ log :
                 e.kind = "rename_fail" /\ e.path = cur.file /\ e.dst = cur.dest_file)]_vars

\* witness of C5: a rename failed on an existing file, and the scan went on
\* to report another file and to finish
C5_Witness ==
    /\ pc = "done"
    /\ \E e \in Events("rename_fail") :
          /\ e.dst \in DOMAIN fs
          /\ e.path \in DOMAIN fs
          /\ \E f \in FileEvents : f.id # e.id /\ f.id = fs[e.dst].id

\* the extension of a file name, with its '.', empty when there is none
Extension(name) ==
    IF Positions(name, ".") = {} THEN <<>>
    ELSE SubSeq(name, Max(Positions(name, ".")), Len(name))

\* C9 (as claimed): a renamed file lies in the directory of the source, has
\* the canonical name as its base and keeps the extension of the source.
C9_RenameKeepsDirAndExtension ==
    \A e \in Events("rename") :
       e.dst = Join(Dirname(e.path), e.canon.val \o Extension(Basename(e.path)))

\* C9 (as claimed, second half): the rename of a mismatched file succeeds
\* whatever the source path is: no exception is raised by os.rename.
C9_RenameNeverRaises ==
    \A e \in Events("crash") : e.class # "RenameError"

\* the classification the running scan gives the file at path p (a file
\* without a hash counts as Unmatched)
ClassOf(p) ==
    IF ~get_rom_hash(fs, p).some THEN "Unmatched"
    ELSE Inspect(scan.system_id, scan.HASH_DATABASE, Basename(p),
                 get_rom_hash(fs, p).val).class

\* the step leaves the file at path p where and as it is
Kept(p) == p \in DOMAIN fs' /\ fs'[p] = fs[p]

\* the step is deduplicate_files deleting the file at p, the destination of
\* the source being renamed, which has the same hash and stays
DedupDeletes(p) ==
    /\ pc = "loop"
    /\ args.rename_files
    /\ args.dedup_files
    /\ p = cur.dest_file
    /\ p \notin DOMAIN fs'
    /\ get_rom_hash(fs, cur.file) = get_rom_hash(fs, p)
    /\ Kept(cur.file)

\* a step of a scan that keeps every file the flags protect
GatedStep ==
    pc \in {"scan", "loop"} =>
       \A p \in DOMAIN fs :
          /\ ClassOf(p) = "MatchedCorrect" => Kept(p)
          /\ ClassOf(p) = "MatchedMismatched" /\ ~args.rename_files => Kept(p)
          /\ ClassOf(p) = "Unmatched" /\ ~args.remove_invalid => Kept(p)

\* the same, but for dedup deleting a Matched-Correct destination; and with
\* rename and remove-invalid unset the files stay as they are
GatedStepButDedup ==
    /\ pc \in {"scan", "loop"} =>
          \A p \in DOMAIN fs :
             /\ ClassOf(p) = "MatchedCorrect" => Kept(p) \/ DedupDeletes(p)
             /\ ClassOf(p) = "MatchedMismatched" /\ ~args.rename_files => Kept(p)
             /\ ClassOf(p) = "Unmatched" /\ ~args.remove_invalid => Kept(p)
    /\ ~args.rename_files /\ ~args.remove_invalid => fs' = fs

\* C10 (as claimed): no step of a scan renames or deletes a Matched-Correct
\* file, a Matched-Mismatched-Name file when rename is unset, or an Unmatched
\* file when remove-invalid is unset.
C10_FlagsGateEveryMutation == [][GatedStep]_vars

\* C10 (amended): a Matched-Correct file is never renamed, and deleted only
\* by dedup (rename and dedup set) as the destination of a source with the
\* same hash; the rest as claimed; with rename and remove-invalid unset no
\* step changes the files.
C10_FlagsGateMutationButDedup == [][GatedStepButDedup]_vars

\* witness of C10: a Matched-Correct file was reported and later deleted by
\* dedup, and with the flags unset a mismatched and an unmatched file were
\* reported by a scan that finished
C10_Witness ==
    \/ \E e \in Events("dedup"), f \in FileEvents :
          f.id = e.id /\ f.class = "MatchedCorrect"
    \/ /\ pc = "done"
       /\ ~args.rename_files
       /\ ~args.remove_invalid
       /\ \E e \in FileEvents : e.class = "MatchedMismatched"
       /\ \E e \in FileEvents : e.class = "Unmatched"

----------------------------------------------------------------------------
(* Claims about a scan run twice *)

Matched == {"MatchedCorrect", "MatchedMismatched", "MatchedNoName"}

\* C4 (as claimed): with rename set, the run after a complete scan renames
\* nothing and reports every matched file as Matched-Correct.
C4_SecondScanAllCorrect ==
    \A e \in log :
       args.rename_files /\ e.run >= 2
       => /\ e.kind # "rename"
          /\ e.kind = "file" /\ e.class \in Matched => e.class = "MatchedCorrect"

\* the earlier run left a correctly named file at path p: it reported the
\* file there Matched-Correct, or renamed a file to p and the base of the
\* new name is the canonical name
SettledBy(r, p) ==
    \E f \in log :
       /\ f.run = r
       /\ \/ f.kind = "file" /\ f.class = "MatchedCorrect" /\ f.path = p
          \/ /\ f.kind = "rename"
             /\ f.dst = p
             /\ LocalRomName(Basename(p)) = f.canon.val

\* C4 (amended): with rename set, the run after a complete scan reports
\* Matched-Correct, and does not rename, every file it finds at a path where
\* the scan before left a correctly named file.
C4_CorrectStaysCorrect ==
    \A e \in FileEvents :
       args.rename_files /\ e.run >= 2 /\ SettledBy(e.run - 1, e.path)
       => /\ e.class = "MatchedCorrect"
          /\ ~\E m \in Events("rename") : m.run = e.run /\ m.path = e.path

\* witness of C4: the second run has finished and reported a file the first
\* run renamed, and a file the first run found correct
C4_Witness ==
    /\ pc = "done"
    /\ run = 2
    /\ args.rename_files
    /\ \E e \in FileEvents, m \in Events("rename") :
          e.run = 2 /\ m.run = 1 /\ m.dst = e.path /\ e.class = "MatchedCorrect"
    /\ \E e \in FileEvents, f \in FileEvents :
          /\ e.run = 2 /\ f.run = 1 /\ f.path = e.path
          /\ f.class = "MatchedCorrect" /\ e.class = "MatchedCorrect"

----------------------------------------------------------------------------
(* Claims about a chain of duplicates *)

Deletions == Events("dedup") \cup Events("delete")

\* the path the scan is to leave the file at p at: p itself when the file is
\* Matched-Correct, dest_file when it is Matched-Mismatched-Name
TargetOf(sys, p) ==
    LET h == get_rom_hash(fs, p)
        r == Inspect(sys, BuildHashDatabase(sys), Basename(p), h.val)
    IN  IF h.some /\ r.class = "MatchedCorrect" THEN Some(p)
        ELSE IF h.some /\ r.class = "MatchedMismatched"
        THEN Some(DestFile(p, LocalRomName(Basename(p)), r.ra_rom_name.val))
        ELSE None

\* a scan with rename and dedup set is about to start on a directory whose
\* n files all have the same hash and the same destination in that directory
ChainOf(n) ==
    /\ pc = "start"
    /\ run = 1
    /\ args.system_id # NoSystem
    /\ args.rename_files
    /\ args.dedup_files
    /\ Cardinality(DOMAIN fs) = n
    /\ \A p \in DOMAIN fs : Dirname(p) = args.dir
    /\ \A p, q \in DOMAIN fs :
          /\ get_rom_hash(fs, p) = get_rom_hash(fs, q)
          /\ TargetOf(args.system_id, p).some
          /\ TargetOf(args.system_id, p) = TargetOf(args.system_id, q)
          /\ Dirname(TargetOf(args.system_id, p).val) = args.dir

\* the scan has finished and one file is left, correctly named
ChainResolved ==
    /\ pc = "done"
    /\ Cardinality(DOMAIN fs) = 1
    /\ \A p \in DOMAIN fs : ClassOf(p) = "MatchedCorrect" /\ Dirname(p) = args.dir

\* C6: a scan with rename and dedup set of a directory of N files with one
\* hash and one destination deletes at most N-1 files, finishes, and leaves
\* exactly one file, correctly named.
C6_ChainTerminates ==
    \A n \in 1..(MaxChain + 1) :
       ChainOf(n) => /\ [](Cardinality(Deletions) <= n - 1)
                     /\ <>ChainResolved

\* witness of C6: a chain of three files has been resolved by two deletions
C6_Witness ==
    /\ ChainResolved
    /\ args.rename_files
    /\ args.dedup_files
    /\ Cardinality(Events("dedup")) = 2
    /\ Cardinality(FileEvents) = 3

----------------------------------------------------------------------------
(* Claims about a run without a system id *)

\* C7 (as claimed): no file is processed under two systems in one run.
C7_OneSystemPerFile ==
    \A e, f \in FileEvents :
       e.run = f.run /\ e.id = f.id /\ e.path = f.path => e.sys = f.sys

\* C8 (as claimed): only the immediate subdirectories of the root start a
\* system scan.
C8_OnlyImmediateSubdirectories ==
    args.system_id = NoSystem
    => \A e \in Events("scan") : Dirname(e.path) = args.dir

\* directory d lies below the root, at whatever depth
BelowRoot(d) ==
    /\ Len(d) > Len(args.dir)
    /\ SubSeq(d, 1, Len(args.dir) + 1) = args.dir \o <<"/">>

\* C8 (amended): system inference is attempted for the directories at every
\* depth: each scan started is that of a directory below the root whose own
\* name is an alias, for the system of that alias; a directory whose name is
\* no alias starts no scan but is descended into, so that when the walk has
\* finished every directory below the root whose name is an alias has
\* started a scan.
C8_EveryAliasDirectoryScanned ==
    args.system_id = NoSystem
    => /\ \A e \in Events("scan") :
             /\ e.path \in dirs
             /\ BelowRoot(e.path)
             /\ get_system_by_dir(Basename(e.path)) = Some(e.sys)
       /\ pc = "done" =>
             \A d \in dirs :
                BelowRoot(d) /\ get_system_by_dir(Basename(d)).some
                => \E e \in Events("scan") : e.path = d /\ e.run = run

\* witness of C8: the walk has finished and a directory two levels below the
\* root, inside a directory whose name is no alias, has started a scan
C8_Witness ==
    /\ pc = "done"
    /\ args.system_id = NoSystem
    /\ \E e \in Events("scan") :
          /\ Depth(e.path, args.dir) = 2
          /\ ~get_system_by_dir(Basename(Dirname(e.path))).some

----------------------------------------------------------------------------
(* Claims about the canonical name *)

\* the length of the catalog file names of SpecName
MaxName == 3

\* the catalog file names: every string of 'a' and '.' up to MaxName long
CatalogNames == UNION {[1..k -> {"a", "."}] : k \in 0..MaxName}

\* a catalog of one system with one game, whose hash ab has one record
NameCatalog(sys, fname) ==
    [s \in {sys} |->
       [games |-> <<Game(1, <<Hab>>)>>,
        results |-> [g \in {1} |-> <<Rec(Hab, fname)>>]]]

\* system scans of r under each kind of system, the catalog naming the file
\* of hash ab by any of the catalog file names
InitName ==
    \E f \in Flags, sys \in {7, 12, 21, 40, SplitFirst}, fname \in CatalogNames :
      \E files \in FileSystems({Join(R, Nax), Join(R, Na)},
                               {Out(Hab), Out(Hef)}, MaxFiles) :
        InitWith(Args(R, sys, f), NameCatalog(sys, fname), {R}, files)

SpecName == InitName /\ [][Next]_vars

\* the catalog file name of the (only) record of a system of NameCatalog
NameOf(sys) == catalog[sys].results[1][1].Name

IsPrefix(c, f) == Len(c) <= Len(f) /\ SubSeq(f, 1, Len(c)) = c
\* what follows the prefix c in f
SuffixAfter(c, f) == SubSeq(f, Len(c) + 1, Len(f))
HasDot(s) == \E i \in 1..Len(s) : s[i] = "."

\* C11: the canonical name a scan derives for a matched file is a function
\* of the system id and the catalog file name: the file name verbatim for
\* systems 12, 21 and 40, what precedes its first '.' for system 27, what
\* precedes its last '.' for every other system (all of it when it has no
\* '.'); the canonical name followed by the suffix that was stripped is the
\* catalog file name.
C11_CanonicalNameDerivation ==
    \A e \in FileEvents :
      e.canon.some =>
        LET f == NameOf(e.sys)
            c == e.canon.val
            sfx == SuffixAfter(c, f)
        IN  /\ IsPrefix(c, f)
            /\ c \o sfx = f
            /\ IF e.sys \in {12, 21, 40} THEN c = f
               ELSE IF e.sys = 27
               THEN /\ ~HasDot(c)
                    /\ IF HasDot(f) THEN Head(sfx) = "." ELSE c = f
               ELSE IF HasDot(f)
                    THEN Head(sfx) = "." /\ ~HasDot(Tail(sfx))
                    ELSE c = f

\* a scan of system 27 derived the canonical name of a catalog file name
\* with two dots, and scans of a keep-extension system and of another
\* system derive names of dotted file names too
C11_Witness ==
    \E e \in FileEvents :
      /\ e.canon.some
      /\ e.sys = 27
      /\ Cardinality(Positions(NameOf(e.sys), ".")) >= 2
      /\ Len(e.canon.val) < Len(NameOf(e.sys))

----------------------------------------------------------------------------
(* Claims about termination and about what a scan keeps *)

\* C12: the rename/dedup loop of a file always exits and the system scan
\* eventually completes, for every directory content and all flags (the
\* hasher and the catalog always answer).
C12_LoopExitsAndScanCompletes ==
    /\ (pc = "loop") ~> (pc # "loop")
    /\ <>(pc = "done")

\* a directory next to the scanned directory r, and a file named like r
B == S1("b")
Nrx == S3("r", ".", "x")

\* system scans of r, a directory that may have the directory b next to it;
\* one of the files of r may be named like r itself
InitKeep ==
    \E f \in Flags, sys \in {7, 12}, d \in {{R}, {R, B}} :
      \E files \in FileSystems({Join(R, Nrx), Join(R, Nax), Join(R, Nbx)}
                                 \cup (IF B \in d THEN {Join(B, Nbx)} ELSE {}),
                               {Out(Hab), Out(Hcd)}, MaxFiles) :
        InitWith(Args(R, sys, f), Catalog, d, files)

SpecKeep == InitKeep /\ [][Next]_vars

\* the hashes of the files now at the paths of P
HashesAt(P) == {get_rom_hash(fs, p).val : p \in {q \in P : get_rom_hash(fs, q).some}}

\* the hashes of the files that were at a path of P when the scan started:
\* those of the files still there (a file's id is the path it started at)
\* and those of the files dedup has deleted; nothing else deletes a file
\* when remove_invalid is unset
HashesBefore(P) ==
    HashesAt({p \in DOMAIN fs : fs[p].id \in P})
    \cup {e.hash.val : e \in {x \in Events("dedup") : x.id \in P /\ x.hash.some}}

\* the paths that held a file when the scan started
PathsBefore == {fs[p].id : p \in DOMAIN fs} \cup {e.id : e \in Events("dedup")}

\* C13: with remove_invalid unset, when a system scan has completed every
\* hash that a file under the scanned directory had before the scan is the
\* hash of a file under the scanned directory.
C13_HashesKeptUnderDirectory ==
    (pc = "done" /\ ~args.remove_invalid)
    => HashesBefore({p \in PathsBefore : BelowRoot(p)})
         \subseteq HashesAt({p \in DOMAIN fs : BelowRoot(p)})

\* with remove_invalid unset, every hash that a file had before the scan is
\* the hash of a file somewhere, under the scanned directory or not
C13_HashesKeptSomewhere ==
    ~args.remove_invalid => HashesBefore(PathsBefore) \subseteq HashesAt(DOMAIN fs)

====
